---- MODULE Spec2Model ----
(***************************************************************************)
(* ndseq: a step sequencer driving a Launchpad (8x8 grid surface) and a    *)
(* Nord Drum from a MIDI beat clock.  The model follows src/ndseq.c: the   *)
(* JACK process callback and the handlers it calls.                        *)
(*                                                                         *)
(* A MIDI event is the sequence of its bytes (Len = jack_midi_event_t.size)*)
(* A written message is <<b0, b1, b2, size>>: the three bytes of the array *)
(* handed to jack_midi_event_write and the size argument; with size 8 the  *)
(* five bytes after the array are indeterminate.                           *)
(* trigdata[t][s] holds only 0 or 1 (it is written only with !val), so it  *)
(* is kept as the set of pairs <<t, s>> whose byte is non-zero.            *)
(***************************************************************************)
EXTENDS Integers, Sequences, FiniteSets

VARIABLES
    beat_clock,   \* uint64_t beat_clock
    curr,         \* int curr
    prev,         \* int prev
    mode,         \* int mode
    curr_track,   \* int curr_track
    trigdata,     \* unsigned char trigdata[6][64], as the set of non-zero cells
    lpout,        \* messages written to the launchpad output in this callback
    ndout,        \* messages written to the nord drum output in this callback
    rc,           \* status returned by the last process() call
    phase,        \* position inside process(): "lp", "clk", or "done" (returned)
    nlp,          \* launchpad events handled so far in this callback
    nclk,         \* clock events handled so far in this callback
    nnd,          \* nord drum events waiting on norddrum_input in this callback
    norddrum_events,  \* the ring buffer of nord drum events, oldest first
    last,         \* history: the last event handled in this callback and how
    pre,          \* history: the sequencer state just before that event
    blk,          \* history: the sequencer state when this callback was entered
    tickplays,    \* history: for the last ticks, whether play was invoked
    run,          \* history: ticks and nord drum notes since the last start
    probe         \* inputs and results of the grid codec functions

vars == <<beat_clock, curr, prev, mode, curr_track, trigdata, lpout, ndout,
          rc, phase, nlp, nclk, nnd, norddrum_events, last, pre, blk, tickplays,
          run, probe>>

seqvars == <<beat_clock, curr, prev, mode, curr_track, trigdata, lpout, ndout,
             rc, phase, nlp, nclk, nnd, norddrum_events, last, pre, blk,
             tickplays, run>>

MODE_LIVE_TRIG == 1
MODE_SEQUENCER == 2

\* The non-zero status of a jack_midi_event_write that finds no room.
ENOBUFS == 105

\* ----------------------------------------------------------------- bounds
MaxTicks == 2        \* Spec: tick events are offered while beat_clock < MaxTicks
MaxEvents == 1       \* events handled in one callback
MaxEventsPair == 2   \* SpecPair: events handled in one callback
MaxTicksClock == 13  \* SpecClock: tick events are offered while beat_clock < this
MaxTicksScn == 17    \* SpecScn: tick events are offered while beat_clock < this
MaxEventsBlock == 3  \* SpecBlock: surface and clock events handled in one callback
MaxTicksBlock == 2   \* SpecBlock: tick events are offered while beat_clock < this
MaxNd == 2           \* SpecBlock: nord drum events waiting in one callback
MaxTicksWrap == 380  \* SpecWrap: tick events are offered while beat_clock < this

\* Number of output writes of one handler that succeed before
\* jack_midi_event_write fails (NoFail: more than any handler writes).
NoFail == 1000
Rooms == {0, 2, NoFail}

\* Values a function that falls off its end without a return may hand back.
Indeterminate == {0, 1}

\* ------------------------------------------------------------ byte helpers
Byte(x) == x % 256

\* x & 0xF0 and x & 0x08 for a byte x
AndF0(x) == (x \div 16) * 16
And08(x) == ((x \div 8) % 2) * 8

\* --------------------------------------------------------------- grid codec
cell(step) == Byte(Byte(16 * (step \div 8)) + (step % 8))

\* Mutant: the green bits shifted by one place instead of four.
color_m(g, r) == Byte(Byte(g * 2) + r)

color(g, r) == Byte(Byte(g * 16) + r)

\* Mutant: the division by 2 left out.
get_step_from_m(midi_event) == (midi_event[2] % 8) + AndF0(midi_event[2])

get_step_from(midi_event) == (midi_event[2] % 8) + (AndF0(midi_event[2]) \div 2)

get_cell_from(step) == Byte((16 * (step \div 8)) + (step % 8))

\* ------------------------------------------------------------------ state
\* The record a handler works on: the globals, the two output buffers and
\* the handler's return value rc; ub says that the return value is
\* indeterminate (rc then holds nothing), played that play was called,
\* drained that the loop emptying norddrum_events was reached.  wild is what
\* lies in memory outside trigdata: the steps i at which a read of
\* trigdata[t][i] with t outside 0..5 finds a non-zero byte.
Cur ==
    [beat_clock |-> beat_clock, curr |-> curr, prev |-> prev, mode |-> mode,
     curr_track |-> curr_track, trigdata |-> trigdata,
     norddrum_events |-> norddrum_events,
     lpout |-> lpout, ndout |-> ndout, rc |-> 0, ub |-> FALSE, played |-> FALSE,
     drained |-> FALSE, wild |-> {}]

\* trigdata[t][s] != 0; with t outside 0..5 the read is out of bounds.
Armed(s, t, i) == IF t \in 0..5 THEN <<t, i>> \in s.trigdata ELSE i \in s.wild

\* A written message: the three bytes of the array and the size argument.
Msg(b0, b1, b2, size) == <<Byte(b0), Byte(b1), Byte(b2), size>>

\* A write: the output port and the message.
Lp(b0, b1, b2, size) == <<"lp", Msg(b0, b1, b2, size)>>
Nd(b0, b1, b2, size) == <<"nd", Msg(b0, b1, b2, size)>>

\* The messages among the writes w that go to the given port, in order.
PortMsgs(w, port) ==
    LET sel == SelectSeq(w, LAMBDA x : x[1] = port)
    IN  [i \in 1..Len(sel) |-> sel[i][2]]

Min(a, b) == IF a < b THEN a ELSE b

\* jack_midi_event_write for each write of w in turn; the first `room` succeed,
\* the next one fails and the handler returns its non-zero status.
Emit(s, w, room) ==
    LET done == SubSeq(w, 1, Min(room, Len(w))) IN
    [s EXCEPT !.lpout = s.lpout \o PortMsgs(done, "lp"),
              !.ndout = s.ndout \o PortMsgs(done, "nd"),
              !.rc = IF room < Len(w) THEN ENOBUFS ELSE 0]

\* ---------------------------------------------------------------- playback
\* Mutant: curr is not taken back to 0.
nudge_seq_m(s) == [s EXCEPT !.prev = s.curr, !.curr = s.curr + 1]

nudge_seq(s) ==
    LET c == s.curr + 1 IN
    [s EXCEPT !.prev = s.curr, !.curr = IF c >= 64 THEN 0 ELSE c]

\* Mutant: the loop reads trigdata[i][prev].
NdPlayWrites_prev(s) ==
    LET hit == SelectSeq([i \in 1..6 |-> i - 1], LAMBDA t : Armed(s, t, s.prev))
    IN  [j \in 1..Len(hit) |-> Nd(144 + hit[j], 60, 127, 3)]

\* Mutant: the message is left zero-initialised, as in ndtrig.c.
NdPlayWrites_zero(s) ==
    LET hit == SelectSeq([i \in 1..6 |-> i - 1], LAMBDA t : Armed(s, t, s.curr))
    IN  [j \in 1..Len(hit) |-> Nd(0, 0, 0, 3)]

\* The note-ons of play's first loop: one per track i with trigdata[i][curr].
NdPlayWrites(s) ==
    LET hit == SelectSeq([i \in 1..6 |-> i - 1], LAMBDA t : Armed(s, t, s.curr))
    IN  [j \in 1..Len(hit) |-> Nd(144 + hit[j], 60, 127, 3)]

\* The launchpad writes of play in sequencer mode: the cursor, then either
\* the 64 note-offs of the first start or the restore of the previous cell.
LpPlayWrites(s) ==
    <<Lp(144, cell(s.curr), color(1, 1), 3)>> \o
    (IF s.curr = 0 /\ 0 = s.prev
       THEN [i \in 1..64 |-> Lp(128, cell(i - 1), 0, 8)]
       ELSE <<Lp(144, cell(s.prev),
                 IF Armed(s, s.curr_track, s.prev) THEN color(3, 0) ELSE 0, 8)>>)

play(step, s, room) ==
    LET w   == NdPlayWrites(s) \o
               (IF s.mode = MODE_LIVE_TRIG THEN <<>> ELSE LpPlayWrites(s))
        out == [Emit(s, w, room) EXCEPT !.played = TRUE]
    IN  IF out.rc # 0 THEN out ELSE nudge_seq(out)

start(s, room) == play(0, [s EXCEPT !.curr = 0], room)

\* Mutant: the increment left out of the branch that plays.
tick_m(s, room) ==
    IF s.beat_clock % 6 = 0
      THEN play(s.curr, s, room)
      ELSE [s EXCEPT !.beat_clock = s.beat_clock + 1]

\* beat_clock is a uint64_t; the guard on MaxTicks keeps it far from 2^64,
\* where the increment would wrap.
tick(s, room) ==
    IF s.beat_clock % 6 = 0
      THEN play(s.curr, [s EXCEPT !.beat_clock = s.beat_clock + 1], room)
      ELSE [s EXCEPT !.beat_clock = s.beat_clock + 1]

\* Mutant: a break after the continue case, which then does nothing.
handle_clk_event_m(midi_event, s, room) ==
    IF Len(midi_event) < 1 THEN [s EXCEPT !.rc = 1]
    ELSE CASE midi_event[1] = 248 -> tick(s, room)
           [] midi_event[1] = 251 -> s
           [] midi_event[1] = 250 -> start(s, room)
           [] midi_event[1] = 252 -> s
           [] OTHER -> s

\* After the switch, unless tick or start failed, the loop that reads
\* norddrum_events until it is empty.
handle_clk_event(midi_event, s, room) ==
    IF Len(midi_event) < 1 THEN [s EXCEPT !.rc = 1]
    ELSE LET r == CASE midi_event[1] = 248 -> tick(s, room)
                    [] midi_event[1] = 251 -> start(s, room)
                    [] midi_event[1] = 250 -> start(s, room)
                    [] midi_event[1] = 252 -> s
                    [] OTHER -> s
         IN  IF r.rc # 0 THEN r
             ELSE [r EXCEPT !.norddrum_events = <<>>, !.drained = TRUE]

\* ----------------------------------------------------------------- surface
set_track_leds(s) ==
    [i \in 1..6 |-> Lp(176, (i - 1) + 104,
                       IF i - 1 = s.curr_track THEN color(3, 0) ELSE 0, 3)]

\* Mutant: the grid is drawn without reading trigdata.
set_grid_leds_m(s) ==
    [i \in 1..64 |-> Lp(144, get_cell_from(i - 1), 0, 3)]

set_grid_leds(s) ==
    [i \in 1..64 |-> Lp(144, get_cell_from(i - 1),
                        IF Armed(s, s.curr_track, i - 1) THEN color(3, 0) ELSE 0, 3)]

\* The writes of update_launchpad, in order, for the mode held by s.
UpdateWrites(s) ==
    CASE s.mode = MODE_LIVE_TRIG ->
           [i \in 1..64 |-> Lp(144, get_cell_from(i - 1), 0, 3)] \o
           [i \in 1..6 |-> Lp(176, 104 + (i - 1), 0, 3)] \o
           <<Lp(176, 110, color(3, 0), 3)>>
      [] s.mode = MODE_SEQUENCER ->
           set_track_leds(s) \o set_grid_leds(s) \o <<Lp(176, 110, color(3, 3), 3)>>
      [] OTHER -> <<Lp(176, 110, 0, 3)>>

update_launchpad(s, room) == Emit(s, UpdateWrites(s), room)

\* Mutant: the first case of the switch falls through into the second.
switch_mode_m(s, room) ==
    update_launchpad(
        [s EXCEPT !.mode = CASE s.mode = MODE_LIVE_TRIG -> MODE_LIVE_TRIG
                             [] s.mode = MODE_SEQUENCER -> MODE_LIVE_TRIG
                             [] OTHER -> s.mode],
        room)

switch_mode(s, room) ==
    update_launchpad(
        [s EXCEPT !.mode = CASE s.mode = MODE_LIVE_TRIG -> MODE_SEQUENCER
                             [] s.mode = MODE_SEQUENCER -> MODE_LIVE_TRIG
                             [] OTHER -> s.mode],
        room)

\* Mutant: the step is set instead of toggled.
toggle_seq_step_m(midi_event, s, room) ==
    LET step == get_step_from(midi_event)
        t    == [s EXCEPT !.trigdata = @ \cup {<<s.curr_track, step>>}]
    IN  Emit(t, <<Lp(midi_event[1], midi_event[2], color(3, 0), 3)>>, room)

toggle_seq_step(midi_event, s, room) ==
    LET step == get_step_from(midi_event)
        cl   == <<s.curr_track, step>>
        val  == Armed(s, s.curr_track, step)
        t    == [s EXCEPT !.trigdata = IF val THEN @ \ {cl} ELSE @ \cup {cl}]
    IN  Emit(t, <<Lp(midi_event[1], midi_event[2],
                     IF Armed(t, s.curr_track, step) THEN color(3, 0) ELSE color(0, 0),
                     3)>>, room)

\* Mutant: the velocity taken from the whole address byte.
handle_live_trig_m(midi_event, s, room) ==
    Emit(s, <<Nd(midi_event[1] + (midi_event[2] % 8), 60,
                 (112 - midi_event[2]) + 15, 3),
              Lp(midi_event[1], midi_event[2], color(3, 0), 3)>>, room)

handle_live_trig(midi_event, s, room) ==
    Emit(s, <<Nd(midi_event[1] + (midi_event[2] % 8), 60,
                 (112 - AndF0(midi_event[2])) + 15, 3),
              Lp(midi_event[1], midi_event[2], color(3, 0), 3)>>, room)

\* handle_grid_button ends without a return statement: where control falls
\* off its end the value the caller reads is indeterminate.
handle_grid_button(midi_event, s, room) ==
    CASE s.mode = MODE_SEQUENCER ->
           IF midi_event[1] = 128 THEN s
           ELSE LET r == toggle_seq_step(midi_event, s, room)
                IN  IF r.rc # 0 THEN r ELSE [r EXCEPT !.ub = TRUE]
      [] s.mode = MODE_LIVE_TRIG ->
           LET r == handle_live_trig(midi_event, s, room)
           IN  IF r.rc # 0 THEN r ELSE [r EXCEPT !.ub = TRUE]
      [] OTHER -> [s EXCEPT !.ub = TRUE]

handle_letter_button(midi_event, s) == s

\* Mutant: the LEDs are drawn before curr_track is updated.
handle_track_button_m(midi_event, s, room) ==
    LET t == [s EXCEPT !.curr_track = midi_event[2] - 104]
    IN  Emit(t,
             [i \in 1..6 |-> Lp(176, 104 + (i - 1),
                                IF i - 1 = s.curr_track THEN color(3, 0) ELSE 0, 3)] \o
             [i \in 1..64 |-> Lp(144, get_cell_from(i - 1),
                                 IF Armed(s, s.curr_track, i - 1) THEN color(3, 0) ELSE 0,
                                 3)],
             room)

handle_track_button(midi_event, s, room) ==
    LET t == [s EXCEPT !.curr_track = midi_event[2] - 104]
    IN  Emit(t,
             [i \in 1..6 |-> Lp(176, 104 + (i - 1),
                                IF i - 1 = t.curr_track THEN color(3, 0) ELSE 0, 3)] \o
             [i \in 1..64 |-> Lp(144, get_cell_from(i - 1),
                                 IF Armed(t, t.curr_track, i - 1) THEN color(3, 0) ELSE 0,
                                 3)],
             room)

\* Every path that does not return a handler's error returns 0.
handle_scene_button(midi_event, s, room) ==
    CASE midi_event[2] % 8 = 6 ->
           IF midi_event[3] = 0 THEN s ELSE switch_mode(s, room)
      [] midi_event[2] % 8 = 7 -> s
      [] OTHER -> handle_track_button(midi_event, s, room)

\* Mutant: the size check left out.
handle_launchpad_event_m(midi_event, s, room) ==
    IF midi_event[1] = 176 THEN handle_scene_button(midi_event, s, room)
    ELSE IF And08(midi_event[2]) = 8 THEN handle_letter_button(midi_event, s)
    ELSE handle_grid_button(midi_event, s, room)

handle_launchpad_event(midi_event, s, room) ==
    IF Len(midi_event) < 3 THEN [s EXCEPT !.rc = 1]
    ELSE IF midi_event[1] = 176 THEN handle_scene_button(midi_event, s, room)
    ELSE IF And08(midi_event[2]) = 8 THEN handle_letter_button(midi_event, s)
    ELSE handle_grid_button(midi_event, s, room)

\* ------------------------------------------------------------------ inputs
\* Grid buttons pressed in the model (byte 1 of the event): steps 0 and 5.
GridKeys == {0, 5}

\* Scene (top row) buttons: the launchpad sends controller numbers 104..111.
LpEvents ==
    {<<144, k, 127>> : k \in GridKeys} \cup       \* grid button down
    {<<144, 5, 0>>} \cup                          \* grid button up (note-on, velocity 0)
    {<<128, 5, 0>>} \cup                          \* grid button up (note-off)
    {<<144, 8, 127>>} \cup                        \* letter button
    {<<176, c, 127>> : c \in {104, 106, 110, 111}} \cup   \* scene button down
    {<<176, c, 0>> : c \in {106, 110}} \cup       \* scene button up
    {<<144, 5>>}                                  \* short event

ClkEvents == {<<248>>, <<250>>, <<251>>, <<252>>, <<254>>, <<>>}

\* SpecClock: a long clock stream, between presses of grid button 0 and of
\* the mode button; a write may fail.
LpEventsClock == {<<144, 0, 127>>, <<176, 110, 127>>}
RoomsClock == {0, NoFail}

\* SpecPair: two surface events in one callback: presses of the grid buttons
\* of steps 0 and 5, of the scene buttons of tracks 0 and 2
\* and of the mode button (down and up).
LpEventsPair ==
    {<<144, 0, 127>>, <<144, 5, 127>>, <<176, 104, 127>>, <<176, 106, 127>>,
     <<176, 110, 127>>, <<176, 110, 0>>}
ClkEventsPair == {<<250>>}

\* SpecScn: starts and ticks after arming steps 0 and 1; every write succeeds.
LpEventsScn == {<<144, 0, 127>>, <<144, 1, 127>>}
ClkEventsScn == {<<248>>, <<250>>}
RoomsScn == {NoFail}

\* SpecBlock: callbacks of up to MaxEventsBlock surface and clock events,
\* with or without nord drum events waiting; short events and failing writes.
LpEventsBlock == {<<144, 5, 127>>, <<176, 106, 127>>, <<144, 5>>}
ClkEventsBlock == {<<248>>, <<250>>, <<252>>, <<>>}
RoomsBlock == {0, 1, NoFail}

\* SpecWide: controller-change events whose number is outside the 104..111
\* of the launchpad's top row (98 and 112), next to track buttons 0 and 2 and
\* the mode button.  Grid buttons are not pressed here: with curr_track
\* outside 0..5 a toggle writes outside trigdata.
LpEventsWide == {<<176, c, 127>> : c \in {98, 104, 106, 110, 112}}
\* What an out-of-bounds read of a trigdata row may find: nothing set, or
\* the bytes at steps 5 or 63 set.
WildRows == {{}, {5}, {5, 63}}

\* SpecLive: presses and releases (as note-on with velocity 0 and as
\* note-off) of the four corner buttons of the grid, and the mode button.
GridKeysLive == {0, 7, 112, 119}
LpEventsLive ==
    {<<144, k, 127>> : k \in GridKeysLive} \cup
    {<<144, k, 0>> : k \in GridKeysLive} \cup
    {<<128, k, 0>> : k \in GridKeysLive} \cup
    {<<176, 110, 127>>}

\* SpecWrap: a clock stream long enough for the sequencer to go round all
\* 64 steps, in either mode, with starts at any point and failing writes.
LpEventsWrap == {<<176, 110, 127>>}
ClkEventsWrap == {<<248>>, <<250>>}

\* SpecSwitch: two events per callback: the grid button of step 0, the
\* buttons of tracks 0 and 2 and the mode button, then starts and ticks;
\* every write succeeds.
LpEventsSwitch == {<<144, 0, 127>>, <<176, 104, 127>>, <<176, 106, 127>>, <<176, 110, 127>>}
ClkEventsSwitch == {<<248>>, <<250>>}

\* SpecTrig: every grid button (a data byte with bit 3 clear), pressed
\* (note-on), released as note-on with value 0 and released as note-off.
GridButtons == {b \in 0..127 : And08(b) = 0}
LpEventsTrig ==
    {<<144, b, 127>> : b \in GridButtons} \cup
    {<<144, b, 0>> : b \in GridButtons} \cup
    {<<128, b, 0>> : b \in GridButtons}

\* ----------------------------------------------------------------- history
Snapshot ==
    [beat_clock |-> beat_clock, curr |-> curr, prev |-> prev, mode |-> mode,
     curr_track |-> curr_track, trigdata |-> trigdata,
     nlp |-> Len(lpout), nnd |-> Len(ndout)]

\* steps: what this callback has done so far, in order: "lp" and "clk" for an
\* event dispatched to its handler, "drain" for norddrum_events emptied.
\* stopped: this callback has handled a stop and no start or continue since.
Handled(src, ev, r) ==
    [src |-> src, ev |-> ev, rc |-> r.rc, played |-> r.played,
     rep |-> (last.src = src /\ last.ev = ev /\ last.rc = 0),
     steps |-> last.steps \o <<src>> \o (IF r.drained THEN <<"drain">> ELSE <<>>),
     stopped |-> IF src = "clk" /\ ev = <<252>> THEN TRUE
                 ELSE IF src = "clk" /\ ev \in {<<250>>, <<251>>} THEN FALSE
                 ELSE last.stopped]

\* ----------------------------------------------------------- initial state
\* After initialize_seq: everything zero, track 0, sequencer mode.
Init ==
    /\ beat_clock = 0
    /\ curr = 0
    /\ prev = 0
    /\ mode = MODE_SEQUENCER
    /\ curr_track = 0
    /\ trigdata = {}
    /\ lpout = <<>>
    /\ ndout = <<>>
    /\ rc = 0
    /\ phase = "done"
    /\ nlp = 0
    /\ nclk = 0
    /\ nnd = 0
    /\ norddrum_events = <<>>
    /\ last = [src |-> "none", ev |-> <<>>, rc |-> 0, played |-> FALSE,
               rep |-> FALSE, steps |-> <<>>, stopped |-> FALSE]
    /\ pre = [beat_clock |-> 0, curr |-> 0, prev |-> 0, mode |-> MODE_SEQUENCER,
              curr_track |-> 0, trigdata |-> {}, nlp |-> 0, nnd |-> 0]
    /\ blk = pre
    /\ tickplays = <<>>
    /\ run = [active |-> FALSE, ticks |-> 0, notes |-> 0]
    /\ probe = [fn |-> "none"]

\* ----------------------------------------------------------------- actions
\* What the caller of a handler may see: the handler's result, with each
\* value an indeterminate return value can take.
Returned(r) ==
    IF r.ub THEN {[r EXCEPT !.rc = v, !.ub = FALSE] : v \in Indeterminate} ELSE {r}

\* The globals and buffers take the values a handler left in r.
Apply(r) ==
    /\ beat_clock' = r.beat_clock
    /\ curr' = r.curr
    /\ prev' = r.prev
    /\ mode' = r.mode
    /\ curr_track' = r.curr_track
    /\ trigdata' = r.trigdata
    /\ lpout' = r.lpout
    /\ ndout' = r.ndout
    /\ norddrum_events' = r.norddrum_events

\* process() is entered with events waiting: both output buffers are cleared.
BeginBlock ==
    /\ phase = "done"
    /\ phase' = "lp"
    /\ lpout' = <<>>
    /\ ndout' = <<>>
    /\ rc' = 0
    /\ nlp' = 0
    /\ nclk' = 0
    /\ nnd' = 0
    /\ last' = [src |-> "none", ev |-> <<>>, rc |-> 0, played |-> FALSE, rep |-> FALSE,
                steps |-> <<>>, stopped |-> FALSE]
    /\ pre' = [Snapshot EXCEPT !.nlp = 0, !.nnd = 0]
    /\ blk' = pre'
    /\ UNCHANGED <<beat_clock, curr, prev, mode, curr_track, trigdata,
                   norddrum_events, tickplays, run, probe>>

\* process() is entered with nord drum events waiting too: they are counted
\* (nnd) and nothing else is done with them.
BeginBlockNd ==
    /\ phase = "done"
    /\ phase' = "lp"
    /\ lpout' = <<>>
    /\ ndout' = <<>>
    /\ rc' = 0
    /\ nlp' = 0
    /\ nclk' = 0
    /\ nnd' \in 1..MaxNd
    /\ last' = [src |-> "none", ev |-> <<>>, rc |-> 0, played |-> FALSE, rep |-> FALSE,
                steps |-> <<>>, stopped |-> FALSE]
    /\ pre' = [Snapshot EXCEPT !.nlp = 0, !.nnd = 0]
    /\ blk' = pre'
    /\ UNCHANGED <<beat_clock, curr, prev, mode, curr_track, trigdata,
                   norddrum_events, tickplays, run, probe>>

\* process() with no event on any input: a zero-size write to each output.
EmptyBlock ==
    /\ phase = "done"
    /\ \E room \in {0, 1, NoFail} :
         LET w == <<<<"nd", <<0>>>>, <<"lp", <<0>>>>>>   \* (NULL, 0): no bytes, size 0
             r == Emit([Cur EXCEPT !.lpout = <<>>, !.ndout = <<>>], w, room)
         IN  /\ lpout' = r.lpout
             /\ ndout' = r.ndout
             /\ rc' = r.rc
    /\ nlp' = 0
    /\ nclk' = 0
    /\ nnd' = 0
    /\ UNCHANGED <<beat_clock, curr, prev, mode, curr_track, trigdata, phase,
                   norddrum_events, last, pre, blk, tickplays, run, probe>>

\* One iteration of the launchpad loop of process(): an event of E is
\* handled, with room for `room` output writes.
HandleLp(E, R, maxEv) ==
    /\ phase = "lp"
    /\ nlp + nclk < maxEv
    /\ \E ev \in E, room \in R :
         \E r \in Returned(handle_launchpad_event(ev, Cur, room)) :
             /\ Apply(r)
             /\ rc' = r.rc
             /\ phase' = IF r.rc # 0 THEN "done" ELSE "lp"
             /\ last' = Handled("lp", ev, r)
    /\ pre' = Snapshot
    /\ nlp' = nlp + 1
    /\ run' = [run EXCEPT !.active = FALSE]
    /\ UNCHANGED <<nclk, nnd, blk, tickplays, probe>>

\* The same iteration, with the memory outside trigdata holding any of W.
HandleLpWild(E, R, W, maxEv) ==
    /\ phase = "lp"
    /\ nlp + nclk < maxEv
    /\ \E ev \in E, room \in R, w \in W :
         \E r \in Returned(handle_launchpad_event(ev, [Cur EXCEPT !.wild = w], room)) :
             /\ Apply(r)
             /\ rc' = r.rc
             /\ phase' = IF r.rc # 0 THEN "done" ELSE "lp"
             /\ last' = Handled("lp", ev, r)
    /\ pre' = Snapshot
    /\ nlp' = nlp + 1
    /\ run' = [run EXCEPT !.active = FALSE]
    /\ UNCHANGED <<nclk, nnd, blk, tickplays, probe>>

\* The launchpad loop ends; norddrum_events is not NULL.
LpDone ==
    /\ phase = "lp"
    /\ phase' = "clk"
    /\ UNCHANGED <<beat_clock, curr, prev, mode, curr_track, trigdata, lpout,
                   ndout, rc, nlp, nclk, nnd, norddrum_events, last, pre, blk,
                   tickplays, run, probe>>

\* The scenario record after a clock event: a start opens it, each tick
\* that is handled without error counts, anything else closes it.
RunAfter(ev, r) ==
    LET notes == Len(r.ndout) - Len(ndout) IN
    IF r.rc # 0 THEN [run EXCEPT !.active = FALSE]
    ELSE IF ev = <<250>> THEN [active |-> TRUE, ticks |-> 0, notes |-> notes]
    ELSE IF ev = <<248>> /\ run.active /\ run.ticks < 12
      THEN [run EXCEPT !.ticks = @ + 1, !.notes = @ + notes]
    ELSE [run EXCEPT !.active = FALSE]

\* Mutant: the clock loop goes on after a handler's non-zero status.
HandleClk_m(E, R, maxEv, maxTicks, scn) ==
    /\ phase = "clk"
    /\ nlp + nclk < maxEv
    /\ \E ev \in E, room \in R :
         \E r \in {handle_clk_event(ev, Cur, room)} :
             /\ (ev = <<248>> => beat_clock < maxTicks)
             /\ Apply(r)
             /\ rc' = r.rc
             /\ phase' = "clk"
             /\ last' = Handled("clk", ev, r)
             /\ tickplays' = tickplays
             /\ run' = run
    /\ pre' = Snapshot
    /\ nclk' = nclk + 1
    /\ UNCHANGED <<nlp, nnd, blk, probe>>

\* One iteration of the clock loop of process().
HandleClk(E, R, maxEv, maxTicks, scn) ==
    /\ phase = "clk"
    /\ nlp + nclk < maxEv
    /\ \E ev \in E, room \in R :
         \E r \in {handle_clk_event(ev, Cur, room)} :
             /\ (ev = <<248>> => beat_clock < maxTicks)
             /\ Apply(r)
             /\ rc' = r.rc
             /\ phase' = IF r.rc # 0 THEN "done" ELSE "clk"
             /\ last' = Handled("clk", ev, r)
             /\ tickplays' = IF ev = <<248>>
                               THEN LET h == Append(tickplays, r.played)
                                    IN  IF Len(h) > 6 THEN Tail(h) ELSE h
                               ELSE tickplays
             /\ run' = IF scn THEN RunAfter(ev, r) ELSE run
    /\ pre' = Snapshot
    /\ nclk' = nclk + 1
    /\ UNCHANGED <<nlp, nnd, blk, probe>>

\* The clock loop ends and process() returns 0.
EndBlock ==
    /\ phase = "clk"
    /\ phase' = "done"
    /\ rc' = 0
    /\ UNCHANGED <<beat_clock, curr, prev, mode, curr_track, trigdata, lpout,
                   ndout, nlp, nclk, nnd, norddrum_events, last, pre, blk,
                   tickplays, run, probe>>

Next ==
    \/ BeginBlock
    \/ HandleLp(LpEvents, Rooms, MaxEvents)
    \/ LpDone
    \/ HandleClk(ClkEvents, Rooms, MaxEvents, MaxTicks, FALSE)
    \/ EndBlock

Spec == Init /\ [][Next]_vars

\* The same callback under a longer clock stream and fewer surface events.
NextClock ==
    \/ BeginBlock
    \/ EmptyBlock
    \/ HandleLp(LpEventsClock, RoomsClock, MaxEvents)
    \/ LpDone
    \/ HandleClk(ClkEvents, RoomsClock, MaxEvents, MaxTicksClock, FALSE)
    \/ EndBlock

SpecClock == Init /\ [][NextClock]_vars

\* The same callback fed starts and ticks, with the history of each run
\* (ticks and notes since the last start) kept.
NextScn ==
    \/ BeginBlock
    \/ HandleLp(LpEventsScn, RoomsScn, MaxEvents)
    \/ LpDone
    \/ HandleClk(ClkEventsScn, RoomsScn, MaxEvents, MaxTicksScn, TRUE)
    \/ EndBlock

SpecScn == Init /\ [][NextScn]_vars

\* The same callback handling up to two events at a time.
NextPair ==
    \/ BeginBlock
    \/ HandleLp(LpEventsPair, RoomsClock, MaxEventsPair)
    \/ LpDone
    \/ HandleClk(ClkEventsPair, RoomsClock, MaxEventsPair, MaxTicks, FALSE)
    \/ EndBlock

SpecPair == Init /\ [][NextPair]_vars

\* The same callback handling several events at a time, some of them
\* malformed, with nord drum events waiting or not.
NextBlock ==
    \/ BeginBlock
    \/ BeginBlockNd
    \/ HandleLp(LpEventsBlock, RoomsBlock, MaxEventsBlock)
    \/ LpDone
    \/ HandleClk(ClkEventsBlock, RoomsBlock, MaxEventsBlock, MaxTicksBlock, FALSE)
    \/ EndBlock

SpecBlock == Init /\ [][NextBlock]_vars

\* The same callback fed controller numbers from the whole range of a
\* controller-change message.
NextWide ==
    \/ BeginBlock
    \/ HandleLpWild(LpEventsWide, RoomsScn, WildRows, MaxEvents)
    \/ LpDone
    \/ EndBlock

SpecWide == Init /\ [][NextWide]_vars

\* The same callback fed grid-button presses and releases in both modes.
NextLive ==
    \/ BeginBlock
    \/ HandleLp(LpEventsLive, RoomsScn, MaxEvents)
    \/ LpDone
    \/ EndBlock

SpecLive == Init /\ [][NextLive]_vars

\* The same callback under a clock stream of several hundred ticks.
NextWrap ==
    \/ BeginBlock
    \/ HandleLp(LpEventsWrap, RoomsClock, MaxEvents)
    \/ LpDone
    \/ HandleClk(ClkEventsWrap, RoomsClock, MaxEvents, MaxTicksWrap, FALSE)
    \/ EndBlock

SpecWrap == Init /\ [][NextWrap]_vars

\* --------------------------------------------- the grid codec on its own
\* cell / get_cell_from applied to a step, and get_step_from to the result.
CodecStep ==
    /\ \E s \in 0..63 :
         probe' = [fn |-> "cell", step |-> s, cell |-> cell(s),
                   cell2 |-> get_cell_from(s),
                   back |-> get_step_from(<<144, cell(s), 127>>),
                   back2 |-> get_step_from(<<144, get_cell_from(s), 127>>)]
    /\ UNCHANGED seqvars

\* get_step_from applied to a grid-button address: a data byte with bit 3 clear.
CodecButton ==
    /\ \E b \in 0..127 :
         /\ And08(b) = 0
         /\ probe' = [fn |-> "step", byte |-> b, step |-> get_step_from(<<144, b, 127>>)]
    /\ UNCHANGED seqvars

NextCodec == CodecStep \/ CodecButton

SpecCodec == Init /\ [][NextCodec]_vars

\* color applied to two (green, red) pairs, next to the colour bytes the
\* handlers put into their messages: the cursor of play, a track indicator
\* that is off and the one that is lit, and the mode LED in each mode.
CodecColor ==
    /\ \E h \in {[playhead |-> LpPlayWrites(Cur)[1][2][3],
                   off |-> set_track_leds([Cur EXCEPT !.curr_track = 0])[2][2][3],
                   armed |-> set_track_leds([Cur EXCEPT !.curr_track = 0])[1][2][3],
                   live |-> UpdateWrites([Cur EXCEPT !.mode = MODE_LIVE_TRIG])[71][2][3],
                   seq |-> UpdateWrites([Cur EXCEPT !.mode = MODE_SEQUENCER])[71][2][3]]} :
         \E g1 \in 0..3, r1 \in 0..3, g2 \in 0..3, r2 \in 0..3 :
             probe' = [fn |-> "color", a |-> <<g1, r1>>, b |-> <<g2, r2>>,
                       ca |-> color(g1, r1), cb |-> color(g2, r2),
                       playhead |-> h.playhead, off |-> h.off, armed |-> h.armed,
                       live |-> h.live, seq |-> h.seq]
    /\ UNCHANGED seqvars

NextColor == CodecColor

SpecColor == Init /\ [][NextColor]_vars

\* The same callback handling a surface event and a clock event at a time.
NextSwitch ==
    \/ BeginBlock
    \/ HandleLp(LpEventsSwitch, RoomsScn, MaxEventsPair)
    \/ LpDone
    \/ HandleClk(ClkEventsSwitch, RoomsScn, MaxEventsPair, MaxTicks, FALSE)
    \/ EndBlock

SpecSwitch == Init /\ [][NextSwitch]_vars

\* handle_launchpad_event applied, in live trig mode, to an event of any of
\* the 64 grid buttons: the state before it and the result.
TrigProbe ==
    /\ \E ev \in LpEventsTrig :
         \E s \in {[Cur EXCEPT !.mode = MODE_LIVE_TRIG]} :
             \E r \in Returned(handle_launchpad_event(ev, s, NoFail)) :
                 probe' = [fn |-> "trig", ev |-> ev, before |-> s, after |-> r]
    /\ UNCHANGED seqvars

NextTrig == TrigProbe

SpecTrig == Init /\ [][NextTrig]_vars

\* ====================================================================
\* Properties
\* ====================================================================
\* What the last handled event wrote to each output.
LpEmitted == SubSeq(lpout, pre.nlp + 1, Len(lpout))
NdEmitted == SubSeq(ndout, pre.nnd + 1, Len(ndout))

\* The sequencer state is what it was before the last handled event.
SeqStateKept ==
    /\ beat_clock = pre.beat_clock
    /\ curr = pre.curr
    /\ prev = pre.prev
    /\ mode = pre.mode
    /\ curr_track = pre.curr_track
    /\ trigdata = pre.trigdata

LastLp == last.src = "lp"
LastClk == last.src = "clk"

\* The last event was a grid button going down (note-on, bit 3 of the
\* address clear, velocity non-zero).
LastGridDown ==
    /\ LastLp
    /\ Len(last.ev) = 3
    /\ last.ev[1] = 144
    /\ And08(last.ev[2]) = 0
    /\ last.ev[3] # 0

\* The last event was the mode button going down.
LastModeDown ==
    /\ LastLp
    /\ Len(last.ev) = 3
    /\ last.ev[1] = 176
    /\ last.ev[2] % 8 = 6
    /\ last.ev[3] # 0

\* The last event was a track-select scene button.
LastTrackSelect ==
    /\ LastLp
    /\ Len(last.ev) = 3
    /\ last.ev[1] = 176
    /\ last.ev[2] % 8 \in 0..5

\* Colour bytes, as the launchpad reads them.
Off == 0
ArmedColour == 48

\* C1: for every step s in 0..63 the step computed from the cell of s is s
\* again (for cell and for get_cell_from), and every grid-button address
\* (a data byte with bit 3 clear) maps to a step in 0..63.
C1_RoundTrip ==
    /\ probe.fn = "cell" => /\ probe.back = probe.step
                            /\ probe.back2 = probe.step
    /\ probe.fn = "step" => probe.step \in 0..63

C1_Witness ==
    /\ probe.fn = "cell"
    /\ probe.step = 63
    /\ probe.cell = 119
    /\ probe.back = 63

\* The callback has handled two launchpad events, the second equal to the
\* first, which had returned 0.
LastPair == nlp = 2 /\ LastLp /\ last.rep

\* C2: in sequencer mode, two consecutive button-down events on the cell of
\* step s while track t is selected leave trigdata as it was before the
\* first (the first having flipped exactly the entry of t and s), and each
\* writes exactly one launchpad message, at that cell, with the armed colour
\* iff the entry is armed after that toggle.
C2_DoubleToggle ==
    (LastPair /\ LastGridDown /\ blk.mode = MODE_SEQUENCER /\ last.rc # ENOBUFS) =>
        \A t \in 0..5, s \in 0..63 :
            (blk.curr_track = t /\ cell(s) = last.ev[2]) =>
                /\ trigdata = blk.trigdata
                /\ pre.trigdata = IF <<t, s>> \in blk.trigdata
                                    THEN blk.trigdata \ {<<t, s>>}
                                    ELSE blk.trigdata \cup {<<t, s>>}
                /\ ndout = <<>>
                /\ lpout = <<<<144, cell(s),
                               IF <<t, s>> \in pre.trigdata THEN ArmedColour ELSE Off, 3>>,
                             <<144, cell(s),
                               IF <<t, s>> \in trigdata THEN ArmedColour ELSE Off, 3>>>>

C2_Witness ==
    /\ LastPair
    /\ last.ev = <<144, 5, 127>>
    /\ last.rc = 0
    /\ blk.mode = MODE_SEQUENCER
    /\ blk.curr_track = 2
    /\ <<2, 5>> \in pre.trigdata
    /\ trigdata = {<<0, 0>>, <<0, 5>>}

\* C7: mode changes exactly when a scene-button event with controller number
\* mod 8 = 6 and a non-zero value is handled; such an event flips mode between
\* live trig and sequencer and leaves trigdata, curr_track, curr, prev and
\* beat_clock alone; two of them in a row bring mode back.
C7_ModeToggle ==
    /\ (last.src # "none") => (mode # pre.mode <=> LastModeDown)
    /\ LastModeDown =>
         /\ mode = (IF pre.mode = MODE_LIVE_TRIG THEN MODE_SEQUENCER ELSE MODE_LIVE_TRIG)
         /\ trigdata = pre.trigdata
         /\ curr_track = pre.curr_track
         /\ curr = pre.curr
         /\ prev = pre.prev
         /\ beat_clock = pre.beat_clock
    /\ (LastPair /\ LastModeDown) => mode = blk.mode

C7_Witness ==
    /\ LastPair
    /\ LastModeDown
    /\ blk.mode = MODE_SEQUENCER
    /\ pre.mode = MODE_LIVE_TRIG
    /\ mode = MODE_SEQUENCER
    /\ trigdata # {}
    /\ curr = 1

LastTick == LastClk /\ last.ev = <<248>>
LastStart == LastClk /\ (last.ev = <<250>> \/ last.ev = <<251>>)

\* How many of the recorded ticks invoked play.
TickPlayCount == Cardinality({i \in 1..Len(tickplays) : tickplays[i]})

\* C3: every handled tick adds exactly 1 to beat_clock, in either mode and
\* also when the play it triggers fails, and of any 6 consecutive ticks
\* exactly one invokes play.
C3_TickDivision ==
    /\ LastTick => beat_clock = pre.beat_clock + 1
    /\ LastTick => (last.played <=> pre.beat_clock % 6 = 0)
    /\ Len(tickplays) = 6 => TickPlayCount = 1

C3_Witness ==
    /\ LastTick
    /\ last.played
    /\ last.rc = ENOBUFS
    /\ beat_clock = 7
    /\ Len(tickplays) = 6
    /\ mode = MODE_LIVE_TRIG

\* C4: after a start or a continue handled with every write succeeding,
\* curr = 1 and prev = 0; and start and continue have the same effect on the
\* state and on the outputs, whether or not a write fails.
C4_StartContinue ==
    /\ (LastStart /\ last.rc = 0) => (curr = 1 /\ prev = 0)
    /\ phase = "clk" =>
         \A room \in Rooms :
             handle_clk_event(<<250>>, Cur, room) = handle_clk_event(<<251>>, Cur, room)

C4_Witness ==
    /\ LastClk
    /\ last.ev = <<251>>
    /\ last.rc = 0
    /\ pre.curr = 2
    /\ pre.prev = 1
    /\ curr = 1
    /\ prev = 0

\* C5: with track 0 armed at steps 0 and 1 and nothing else armed, a start
\* followed by 12 ticks writes exactly 2 notes to the nord drum, whatever
\* beat_clock was at the start: one by the play of step 0 (the start itself)
\* and one by the play of step 1.
C5_TwoNotes ==
    (run.active /\ trigdata = {<<0, 0>>, <<0, 1>>}) =>
        /\ run.ticks = 0 => (run.notes = 1 /\ curr = 1)
        /\ curr = 1 => run.notes = 1
        /\ curr >= 2 => run.notes = 2
        /\ run.ticks = 12 => (run.notes = 2 /\ curr = 3)

C5_Witness ==
    /\ run.active
    /\ run.ticks = 12
    /\ run.notes = 2
    /\ trigdata = {<<0, 0>>, <<0, 1>>}
    /\ beat_clock = 17

\* The notes one play of step c owes the nord drum: for each track from t
\* up to 5 that is armed at c, in order.
RECURSIVE NotesFrom(_, _, _)
NotesFrom(t, c, grid) ==
    IF t > 5 THEN <<>>
    ELSE (IF <<t, c>> \in grid THEN <<<<144 + t, 60, 127, 3>>>> ELSE <<>>)
         \o NotesFrom(t + 1, c, grid)

\* The step a play invoked by the last event played.
PlayedStep == IF LastStart THEN 0 ELSE pre.curr

\* C6: every play, in either mode, writes to the nord drum exactly one
\* note-on per track armed at the current step, in track order, with status
\* 0x90 + track, note 60 and velocity 127, and nothing for the other tracks
\* (when a write fails, the notes written so far are the first of these).
C6_PlayNotes ==
    /\ (last.played /\ last.rc = 0) => NdEmitted = NotesFrom(0, PlayedStep, pre.trigdata)
    /\ (last.played /\ last.rc # 0) =>
         /\ Len(NdEmitted) <= Len(NotesFrom(0, PlayedStep, pre.trigdata))
         /\ NdEmitted = SubSeq(NotesFrom(0, PlayedStep, pre.trigdata), 1, Len(NdEmitted))
    /\ (LastClk /\ ~last.played) => NdEmitted = <<>>

C6_Witness ==
    /\ last.played
    /\ last.rc = 0
    /\ mode = MODE_LIVE_TRIG
    /\ NdEmitted = <<<<144, 60, 127, 3>>, <<146, 60, 127, 3>>>>
    /\ <<0, 5>> \in trigdata

\* Positions, in a sequence of surface commands, of those with the given
\* status byte and address byte.
CmdsAt(w, status, addr) == {i \in 1..Len(w) : w[i][1] = status /\ w[i][2] = addr}

\* One command with that status and address in w, and it is lit iff lit.
OneCmd(w, status, addr, lit) ==
    /\ Cardinality(CmdsAt(w, status, addr)) = 1
    /\ \A i \in CmdsAt(w, status, addr) : (w[i][3] # Off) <=> lit

GridAddr(s) == 16 * (s \div 8) + (s % 8)
FirstTrackLed == 104
ModeLed == 110

\* C8: the refresh written by a mode switch is exactly 71 commands of 3
\* bytes, all to the surface.  Into LIVE_TRIG: the 64 grid cells and the 6
\* track indicators are set to off and the mode LED gets the live colour.
\* Into SEQUENCER: the indicator of curr_track and no other is lit, the cell
\* of step s is lit iff trigdata[curr_track][s], and the mode LED gets a
\* colour different from the live one.
C8_FullRefresh ==
    (LastModeDown /\ last.rc = 0) =>
        /\ NdEmitted = <<>>
        /\ Len(LpEmitted) = 71
        /\ \A i \in 1..Len(LpEmitted) : LpEmitted[i][4] = 3
        /\ Cardinality(CmdsAt(LpEmitted, 176, ModeLed)) = 1
        /\ mode = MODE_LIVE_TRIG =>
             /\ \A s \in 0..63 : OneCmd(LpEmitted, 144, GridAddr(s), FALSE)
             /\ \A t \in 0..5 : OneCmd(LpEmitted, 176, FirstTrackLed + t, FALSE)
             /\ \A i \in CmdsAt(LpEmitted, 176, ModeLed) : LpEmitted[i][3] = ArmedColour
        /\ mode = MODE_SEQUENCER =>
             /\ \A s \in 0..63 :
                    OneCmd(LpEmitted, 144, GridAddr(s), <<curr_track, s>> \in trigdata)
             /\ \A t \in 0..5 : OneCmd(LpEmitted, 176, FirstTrackLed + t, t = curr_track)
             /\ \A i \in CmdsAt(LpEmitted, 176, ModeLed) :
                    LpEmitted[i][3] \notin {ArmedColour, Off}

C8_Witness ==
    /\ LastModeDown
    /\ last.rc = 0
    /\ mode = MODE_SEQUENCER
    /\ curr_track = 2
    /\ trigdata = {<<0, 0>>, <<2, 5>>}
    /\ Len(LpEmitted) = 71

LastMalformed ==
    \/ LastLp /\ Len(last.ev) < 3
    \/ LastClk /\ Len(last.ev) < 1

\* C10: a surface event of fewer than 3 bytes, or a clock event of fewer
\* than 1 byte, ends the callback with a non-zero return value; handling it
\* changes none of trigdata, curr_track, mode, curr, prev, beat_clock and
\* writes nothing to either output.
C10_Malformed ==
    LastMalformed =>
        /\ last.rc # 0
        /\ rc # 0
        /\ phase = "done"
        /\ SeqStateKept
        /\ LpEmitted = <<>>
        /\ NdEmitted = <<>>

C10_Witness ==
    /\ LastLp
    /\ last.ev = <<144, 5>>
    /\ rc = 1
    /\ phase = "done"
    /\ mode = MODE_SEQUENCER
    /\ trigdata = {<<0, 5>>}
    /\ beat_clock = 1

C10_WitnessClock ==
    /\ LastClk
    /\ last.ev = <<>>
    /\ rc = 1
    /\ trigdata # {}

LastFailed == last.rc # 0

\* trigdata with the byte of cell c inverted.
Flip(g, c) == IF c \in g THEN g \ {c} ELSE g \cup {c}

\* What a failed event leaves behind: a malformed event nothing; a toggle
\* whose LED write is rejected the toggled step; a start whose write is
\* rejected curr = 0; a tick whose play fails the incremented beat_clock.
C11_Persist ==
    /\ (LastFailed /\ LastMalformed) => SeqStateKept
    /\ (LastFailed /\ LastGridDown /\ pre.mode = MODE_SEQUENCER /\ last.rc = ENOBUFS) =>
         /\ trigdata = Flip(pre.trigdata, <<pre.curr_track, get_step_from(last.ev)>>)
         /\ LpEmitted = <<>>
    /\ (LastFailed /\ LastStart) => (curr = 0 /\ prev = pre.prev)
    /\ (LastFailed /\ LastTick) =>
         (beat_clock = pre.beat_clock + 1 /\ curr = pre.curr /\ prev = pre.prev)

\* The only step out of a failed callback is the entry of the next one, which
\* finds the sequencer state as the failure left it.
C11_NextBlock ==
    LastFailed =>
        /\ phase' = "lp"
        /\ nlp' = 0
        /\ nclk' = 0
        /\ <<beat_clock, curr, prev, mode, curr_track, trigdata>>' =
           <<beat_clock, curr, prev, mode, curr_track, trigdata>>

\* C11: when the handling of an event fails (malformed event or rejected
\* write), process() returns that non-zero status at once: no later surface
\* or clock event of the callback is handled; what the handlers changed
\* before the failure stays changed; and the next callback starts from that
\* state.
C11_BlockAbort ==
    /\ [](LastFailed => (phase = "done" /\ rc = last.rc))
    /\ [](phase \in {"lp", "clk"} => rc = 0)
    /\ []C11_Persist
    /\ [][C11_NextBlock]_vars

C11_Witness ==
    /\ LastClk
    /\ last.ev = <<250>>
    /\ last.rc = ENOBUFS
    /\ phase = "done"
    /\ nlp = 2
    /\ blk.trigdata = {}
    /\ blk.curr_track = 0
    /\ trigdata = {<<2, 5>>}
    /\ curr_track = 2
    /\ Len(lpout) = 72

Steps == last.steps
StepsAt(kind) == {i \in 1..Len(Steps) : Steps[i] = kind}

\* C12: in one callback every surface event is dispatched before any clock
\* event, and norddrum_events is emptied after the surface events and before
\* the first clock event is dispatched.
C12_Order ==
    /\ \A i \in StepsAt("lp"), j \in StepsAt("clk") : i < j
    /\ \A j \in StepsAt("clk") : \E d \in StepsAt("drain") : d < j
    /\ \A i \in StepsAt("lp"), d \in StepsAt("drain") : i < d

\* What process() and handle_clk_event do instead: the surface events come
\* first, and norddrum_events is emptied at the end of each clock event that
\* was handled without error, hence after that event's tick or start.
C12_DrainAfterDispatch ==
    /\ \A i \in StepsAt("lp"), j \in StepsAt("clk") : i < j
    /\ \A d \in StepsAt("drain") : d > 1 /\ Steps[d - 1] = "clk"
    /\ \A j \in StepsAt("clk") :
         (j < Len(Steps) \/ ~LastFailed) => (j < Len(Steps) /\ Steps[j + 1] = "drain")

C12_DrainWitness ==
    /\ Steps = <<"lp", "clk", "drain", "clk", "drain">>
    /\ last.played

\* C16: the nord drum events waiting when process() is entered are in
\* norddrum_events (at most 64 of them) once the surface events are handled.
C16_Pushed ==
    (phase = "clk" /\ nclk = 0) => Len(norddrum_events) >= Min(64, nnd)

\* What the code does: nothing is ever put into norddrum_events.
C16_NeverPushed == norddrum_events = <<>>

\* C13: a controller-change event whose number mod 8 is in 0..5 sets
\* curr_track to that residue, whatever the number; so curr_track is in 0..5
\* in every reachable state.
C13_ValidTrack ==
    /\ LastTrackSelect => curr_track = last.ev[2] % 8
    /\ curr_track \in 0..5

\* What handle_track_button does: curr_track = buffer[1] - 104.
C13_Minus104 == LastTrackSelect => curr_track = last.ev[2] - 104

\* The refresh of a later mode switch then lights no track indicator at all.
C13_NoTrackLit ==
    /\ LastModeDown
    /\ mode = MODE_SEQUENCER
    /\ curr_track = -6
    /\ \A t \in 0..5 : OneCmd(LpEmitted, 176, FirstTrackLed + t, FALSE)

\* The size argument of a write (the last component of a written message).
MsgSize(m) == m[Len(m)]

\* C14: every message written to the launchpad output and to the nord drum
\* output has a size of exactly 3 bytes.
C14_ThreeBytes ==
    /\ \A i \in 1..Len(lpout) : MsgSize(lpout[i]) = 3
    /\ \A i \in 1..Len(ndout) : MsgSize(ndout[i]) = 3

\* What play does in sequencer mode: the cursor is written with size 3, and
\* every message after it (the 64 note-offs, or the restore of the previous
\* cell) with size 8; every write of every other handler has size 3.
C14_PlaySizes ==
    /\ \A i \in 1..Len(ndout) : MsgSize(ndout[i]) = 3
    /\ \A i \in 1..Len(lpout) : MsgSize(lpout[i]) \in {3, 8}
    /\ \A i \in 1..Len(LpEmitted) :
         MsgSize(LpEmitted[i]) = 8 => (last.played /\ pre.mode = MODE_SEQUENCER /\ i > 1)
    /\ (last.played /\ pre.mode = MODE_SEQUENCER) =>
         \A i \in 2..Len(LpEmitted) : MsgSize(LpEmitted[i]) = 8

C14_ClearAllSizes ==
    /\ LastStart
    /\ last.rc = 0
    /\ Len(LpEmitted) = 65
    /\ \A i \in 2..65 : MsgSize(LpEmitted[i]) = 8

\* C15: every message written to the nord drum output has status 0x90 + t
\* with t in 0..5 and note number 60.
C15_NdChannel ==
    \A i \in 1..Len(ndout) : ndout[i][1] \in 144..149 /\ ndout[i][2] = 60

\* What handle_live_trig writes: status buffer[0] + buffer[1] % 8, note 60.
C15_LiveStatus ==
    \A i \in 1..Len(ndout) :
        /\ ndout[i][2] = 60
        /\ (LastLp /\ pre.mode = MODE_LIVE_TRIG) =>
             ndout[i][1] = last.ev[1] + (last.ev[2] % 8)

\* A press of the last button of the top row in live mode: status 0x97.
C15_Column7 ==
    /\ LastLp
    /\ last.ev = <<144, 7, 127>>
    /\ ndout = <<<<151, 60, 127, 3>>>>

\* C17: color(g, r) is 16 * g + r and is injective over g, r in 0..3; the
\* colours the handlers use are told apart: off, the cursor of play and the
\* armed colour differ pairwise, and the mode LED differs between the modes.
C17_Colours ==
    probe.fn = "color" =>
        /\ probe.ca = 16 * probe.a[1] + probe.a[2]
        /\ probe.ca = probe.cb => probe.a = probe.b
        /\ probe.off # probe.playhead
        /\ probe.playhead # probe.armed
        /\ probe.off # probe.armed
        /\ probe.live # probe.seq

C17_Witness ==
    /\ probe.fn = "color"
    /\ probe.a = <<3, 0>>
    /\ probe.b = <<3, 3>>
    /\ probe.ca = 48
    /\ probe.cb = 51
    /\ probe.live = 48
    /\ probe.seq = 51
    /\ probe.playhead = 17
    /\ probe.off = 0

\* C18: a tick increments beat_clock first and invokes play iff the
\* incremented beat_clock is a multiple of 6; from beat_clock = 0 the first
\* tick does not play.
C18_IncrementFirst ==
    /\ LastTick => (last.played <=> beat_clock % 6 = 0)
    /\ (LastTick /\ pre.beat_clock = 0) => ~last.played

\* What tick does: it tests beat_clock before the increment, so the ticks
\* that play are the 1st, the 7th, the 13th, ... counted from beat_clock = 0.
C18_TestFirst == LastTick => (last.played <=> pre.beat_clock % 6 = 0)

C18_FirstTickPlays ==
    /\ LastTick
    /\ pre.beat_clock = 0
    /\ beat_clock = 1
    /\ last.played

\* C19: a start or continue sets both curr and prev to 0 before it plays:
\* play is entered with curr = 0 and prev = 0, so when its first write is
\* rejected both are still 0, and otherwise, in sequencer mode, it writes the
\* cursor and the 64 note-offs of a first start.
C19_StartResets ==
    /\ (LastStart /\ LastFailed) => (curr = 0 /\ prev = 0)
    /\ (LastStart /\ ~LastFailed /\ pre.mode = MODE_SEQUENCER) => Len(LpEmitted) = 65

\* What start does: curr = 0 and nothing else before play.
C19_PrevKept ==
    /\ (LastStart /\ LastFailed) => (curr = 0 /\ prev = pre.prev)
    /\ (LastStart /\ ~LastFailed /\ pre.mode = MODE_SEQUENCER) =>
         Len(LpEmitted) = IF pre.prev = 0 THEN 65 ELSE 2

C19_RestoreOnStart ==
    /\ LastStart
    /\ ~LastFailed
    /\ pre.mode = MODE_SEQUENCER
    /\ pre.prev = 1
    /\ LpEmitted = <<<<144, 0, 17, 3>>, <<144, 1, 0, 8>>>>

\* C20: curr and prev are in 0..63 in every reachable state, and a play that
\* finds curr = 63 and succeeds leaves curr = 0 and prev = 63.
C20_StepRange ==
    /\ curr \in 0..63
    /\ prev \in 0..63
    /\ (last.played /\ ~LastFailed /\ pre.curr = 63 /\ LastTick) =>
         (curr = 0 /\ prev = 63)

C20_Witness ==
    /\ LastTick
    /\ last.played
    /\ ~LastFailed
    /\ pre.curr = 63
    /\ pre.prev = 62
    /\ curr = 0
    /\ prev = 63
    /\ mode = MODE_LIVE_TRIG

BlockBoundary == phase = "done"

\* C21: at every callback boundary at which curr and prev are not both still
\* 0, curr = (prev + 1) mod 64, also when the callback was ended by a
\* rejected write during a start or a tick.
C21_Lag ==
    (BlockBoundary /\ (curr # 0 \/ prev # 0)) => curr = (prev + 1) % 64

\* What holds: prev lags curr by one advance, unless a start has set curr to 0
\* and its play did not get to the advance.
C21_LagOrStartFailed ==
    /\ curr = (prev + 1) % 64 \/ curr = 0
    /\ (LastClk /\ ~LastFailed /\ last.played) => curr = (prev + 1) % 64
    /\ (LastTick /\ LastFailed) => (curr = pre.curr /\ prev = pre.prev)

C21_StartFailedState ==
    /\ BlockBoundary
    /\ LastStart
    /\ LastFailed
    /\ curr = 0
    /\ prev = 1

LastGridEvent ==
    LastLp /\ Len(last.ev) = 3 /\ last.ev[1] # 176 /\ And08(last.ev[2]) = 0

\* A grid button going up: a note-off status, or a value byte of 0.
LastGridUp ==
    LastGridEvent /\ (last.ev[1] \in 128..143 \/ last.ev[3] = 0)

\* C22: trigdata changes only when a grid button-down event is handled in
\* sequencer mode; a grid button-up event in sequencer mode (note-off status,
\* or value byte 0) changes nothing and writes nothing.
C22_GridFrame ==
    /\ trigdata # pre.trigdata => (LastGridDown /\ pre.mode = MODE_SEQUENCER)
    /\ (LastGridUp /\ pre.mode = MODE_SEQUENCER) =>
         (SeqStateKept /\ LpEmitted = <<>> /\ NdEmitted = <<>>)

\* What handle_grid_button does in sequencer mode: only status 0x80 is taken
\* as button-up; any other grid event toggles, whatever its value byte.
C22_OnlyNoteOffIgnored ==
    /\ trigdata # pre.trigdata =>
         (LastGridEvent /\ pre.mode = MODE_SEQUENCER /\ last.ev[1] # 128)
    /\ (LastGridEvent /\ pre.mode = MODE_SEQUENCER /\ last.ev[1] = 128) =>
         (SeqStateKept /\ LpEmitted = <<>> /\ NdEmitted = <<>>)
    /\ (LastGridEvent /\ pre.mode = MODE_SEQUENCER /\ last.ev[1] # 128) =>
         trigdata = Flip(pre.trigdata, <<pre.curr_track, get_step_from(last.ev)>>)

C22_VelocityZeroToggles ==
    /\ LastLp
    /\ last.ev = <<144, 5, 0>>
    /\ pre.trigdata = {}
    /\ trigdata = {<<0, 5>>}
    /\ LpEmitted = <<<<144, 5, 48, 3>>>>

\* C23: curr_track changes only when a track button is handled in sequencer
\* mode; a track button handled in live mode leaves curr_track as it was and
\* lights nothing.
C23_TrackFrame ==
    /\ curr_track # pre.curr_track => (LastTrackSelect /\ pre.mode = MODE_SEQUENCER)
    /\ (LastTrackSelect /\ pre.mode = MODE_LIVE_TRIG) =>
         /\ curr_track = pre.curr_track
         /\ \A i \in 1..Len(LpEmitted) : LpEmitted[i][3] = Off

\* What handle_track_button does: the same in both modes.
C23_NoModeTest ==
    /\ curr_track # pre.curr_track => LastTrackSelect
    /\ (LastTrackSelect /\ ~LastFailed) =>
         /\ curr_track = last.ev[2] - 104
         /\ Len(LpEmitted) = 70
         /\ OneCmd(LpEmitted, 176, FirstTrackLed + curr_track, TRUE)

C23_LiveSelect ==
    /\ LastTrackSelect
    /\ ~LastFailed
    /\ pre.mode = MODE_LIVE_TRIG
    /\ mode = MODE_LIVE_TRIG
    /\ pre.curr_track = 0
    /\ curr_track = 2
    /\ trigdata = {<<2, 5>>}
    /\ OneCmd(LpEmitted, 144, GridAddr(5), TRUE)

\* C24: only the first play since startup writes the 64 note-offs; every play
\* in sequencer mode that is entered after an advance (curr or prev not 0
\* before the event) writes the cursor and the restore of the previous cell.
C24_ClearOnce ==
    (last.played /\ ~LastFailed /\ pre.mode = MODE_SEQUENCER
       /\ (pre.curr # 0 \/ pre.prev # 0)) => Len(LpEmitted) = 2

\* What play does: the 64 note-offs whenever it is entered with curr = 0 and
\* prev = 0, which a start brings about whenever prev is 0.
C24_ClearWheneverZero ==
    (last.played /\ ~LastFailed /\ pre.mode = MODE_SEQUENCER) =>
        Len(LpEmitted) =
            IF (IF LastStart THEN 0 ELSE pre.curr) = 0 /\ pre.prev = 0 THEN 65 ELSE 2

C24_SecondClear ==
    /\ LastStart
    /\ ~LastFailed
    /\ pre.curr = 1
    /\ pre.prev = 0
    /\ Len(LpEmitted) = 65
    /\ trigdata # {}

PlayheadColour == 17

\* The play of the last event wrote, in sequencer mode, the cursor at the
\* cell of the played step and then the restore of the cell of prev, armed
\* colour iff trigdata[curr_track][prev].
TwoCommands ==
    /\ Len(LpEmitted) = 2
    /\ SubSeq(LpEmitted[1], 1, 3) = <<144, GridAddr(PlayedStep), PlayheadColour>>
    /\ SubSeq(LpEmitted[2], 1, 3) =
         <<144, GridAddr(pre.prev),
           IF <<curr_track, pre.prev>> \in trigdata THEN ArmedColour ELSE Off>>

Advanced == prev = PlayedStep /\ curr = (PlayedStep + 1) % 64

\* C25: a play that succeeds writes, in live mode, nothing to the launchpad
\* and still advances curr and prev; in sequencer mode, when it is not the
\* first advance, exactly the cursor and then the restore of the previous
\* cell for the curr_track in force.
C25_PlayLeds ==
    (last.played /\ ~LastFailed) =>
        /\ pre.mode = MODE_LIVE_TRIG => (LpEmitted = <<>> /\ Advanced)
        /\ (pre.mode = MODE_SEQUENCER /\ (pre.curr # 0 \/ pre.prev # 0)) =>
             (TwoCommands /\ Advanced)

\* What play does: the two commands when it is entered with curr or prev
\* other than 0, the cursor and the 64 note-offs otherwise.
C25_ByEntryState ==
    (last.played /\ ~LastFailed) =>
        /\ Advanced
        /\ pre.mode = MODE_LIVE_TRIG => LpEmitted = <<>>
        /\ (pre.mode = MODE_SEQUENCER /\ (PlayedStep # 0 \/ pre.prev # 0)) => TwoCommands
        /\ (pre.mode = MODE_SEQUENCER /\ PlayedStep = 0 /\ pre.prev = 0) =>
             Len(LpEmitted) = 65

\* A track button and then a playing tick in one callback: the restore is
\* drawn for the new track.
C25_NewTrackUsed ==
    /\ nlp = 1
    /\ LastTick
    /\ last.played
    /\ blk.curr_track = 0
    /\ curr_track = 2
    /\ pre.prev = 0
    /\ trigdata = {<<2, 0>>}
    /\ LpEmitted = <<<<144, 1, 17, 3>>, <<144, 0, 48, 8>>>>

LastStopOrOther ==
    LastClk /\ Len(last.ev) >= 1 /\ last.ev[1] \notin {248, 250, 251}

NothingWritten == LpEmitted = <<>> /\ NdEmitted = <<>>

\* C27: a stop, or a clock event that is neither tick, start nor continue,
\* changes nothing and writes nothing; and a tick handled after a stop with no
\* start or continue in between increments beat_clock, leaves curr and prev
\* alone and writes nothing.
C27_StopFreezes ==
    /\ LastStopOrOther => (SeqStateKept /\ NothingWritten)
    /\ (LastTick /\ last.stopped) =>
         /\ beat_clock = pre.beat_clock + 1
         /\ curr = pre.curr
         /\ prev = pre.prev
         /\ NothingWritten

\* What the code does: a stop is not remembered anywhere, and a tick plays on
\* beat_clock alone.
C27_StopForgotten ==
    /\ LastStopOrOther => (SeqStateKept /\ NothingWritten /\ ~LastFailed)
    /\ LastTick => (last.played <=> pre.beat_clock % 6 = 0)
    /\ (LastTick /\ last.played /\ ~LastFailed) => Advanced

C27_TickAfterStop ==
    /\ LastTick
    /\ last.stopped
    /\ last.played
    /\ ~LastFailed
    /\ pre.curr = 1
    /\ curr = 2
    /\ Len(LpEmitted) = 2

\* Positions in lpout of the commands of this callback addressed to a cell.
CellCmds(addr) ==
    {i \in 1..Len(lpout) : lpout[i][1] \in {128, 144} /\ lpout[i][2] = addr}

\* The last of them: what the LED of that cell shows.
CellLed(addr) ==
    lpout[CHOOSE i \in CellCmds(addr) : \A j \in CellCmds(addr) : j <= i]

LedLit(m) == m[1] = 144 /\ m[3] # Off

\* C28: at the end of a callback that returned 0, in sequencer mode, every
\* grid cell written in the callback, other than one showing the cursor, is
\* lit iff trigdata[curr_track][step].
C28_LedsMatch ==
    (BlockBoundary /\ rc = 0 /\ last.src # "none" /\ mode = MODE_SEQUENCER) =>
        \A s \in 0..63 :
            (CellCmds(GridAddr(s)) # {} /\ CellLed(GridAddr(s))[3] # PlayheadColour) =>
                (LedLit(CellLed(GridAddr(s))) <=> <<curr_track, s>> \in trigdata)

\* Step 5 armed and then a first start in one callback: the cell of step 5
\* ends dark.
C28_ArmedCellDark ==
    /\ BlockBoundary
    /\ rc = 0
    /\ mode = MODE_SEQUENCER
    /\ curr_track = 0
    /\ trigdata = {<<0, 5>>}
    /\ Steps = <<"lp", "clk", "drain">>
    /\ CellLed(GridAddr(5)) = <<128, 5, 0, 8>>

\* C29: a grid-button event handled without a rejected write makes the
\* handler return 0, and the callback goes on.
C29_GridReturns ==
    (LastGridEvent /\ last.rc # ENOBUFS) => (last.rc = 0 /\ ~BlockBoundary)

\* What handle_grid_button does: it returns 0 for a note-off in sequencer
\* mode and a write's error status; after a toggle or a live trig that
\* succeeded it ends without a return statement.
C29_ExplicitReturns ==
    /\ (LastGridEvent /\ pre.mode = MODE_SEQUENCER /\ last.ev[1] = 128) => last.rc = 0
    /\ (LastGridEvent /\ last.rc \notin {0, ENOBUFS}) =>
         (last.rc \in Indeterminate /\ BlockBoundary /\ Len(LpEmitted) = 1)

C29_ToggleThenAbort ==
    /\ LastGridDown
    /\ last.rc = 1
    /\ BlockBoundary
    /\ pre.mode = MODE_SEQUENCER
    /\ pre.trigdata = {}
    /\ trigdata = {<<0, 5>>}
    /\ LpEmitted = <<<<144, 5, 48, 3>>>>
====
